---- MODULE Spec2Model ----
(***************************************************************************)
(* Model of the neuro_preprocess pipeline orchestrator:                    *)
(* PreprocessingPipeline (pipeline.py) driving DataLoader (loader.py),     *)
(* ImageProcessor (processor.py) and DataWriter (writer.py), with the      *)
(* OpenTelemetry spans the code opens and the RunStatistics it keeps.      *)
(*                                                                         *)
(* Time is counted in ticks of 0.1 s.  time.time() is read from the        *)
(* variable now, which never decreases; time.sleep(d) advances it by at    *)
(* least d.  File sizes are whole megabytes.  A path is the sequence of    *)
(* its name tokens: the part before the first dot, then one token per      *)
(* dotted suffix, so <<"a", ".nii", ".gz">> is a.nii.gz.                   *)
(***************************************************************************)
EXTENDS Integers, Sequences, FiniteSets, TLC

(***************************************************************************)
(* Bounds of the model.                                                    *)
(***************************************************************************)
\* process_file executions between construction and the end of a behaviour
MaxCalls == 3
\* length of the list handed to process_batch
MaxBatch == 3
\* extra ticks a time.sleep may take beyond the requested duration
MaxJitter == 1
\* dotted suffixes in the name of a file handed to one stage on its own
MaxSuffixes == 2
\* process_file executions whose output names are compared
MaxNamed == 2
\* threads calling process_file on one pipeline at the same time
MaxWorkers == 2

(***************************************************************************)
(* The files the callers name, and the disk.                               *)
(***************************************************************************)
FileA == <<"a", ".nii", ".gz">>
FileMissing == <<"m", ".nii", ".gz">>
FileText == <<"c", ".txt">>

InputPaths == {FileA, FileMissing, FileText}

\* the file names handed to a stage on its own: a name token and up to
\* MaxSuffixes dotted suffixes
SuffixTokens == {".nii", ".gz", ".dcm", ".mgz", ".txt"}
StagePaths ==
    {<<n>> \o sfx : n \in {"a", "m"},
                    sfx \in UNION {[1..k -> SuffixTokens] : k \in 0..MaxSuffixes}}

\* Path.exists(): the files present on disk, every file but those named m
OnDisk == {p \in InputPaths \cup StagePaths : p[1] # "m"}

\* path.stat().st_size in MB
FileSizeMb(p) == IF p = FileText THEN 12 ELSE 1

Min(a, b) == IF a <= b THEN a ELSE b

EndsWith(s, t) ==
    /\ Len(t) <= Len(s)
    /\ SubSeq(s, Len(s) - Len(t) + 1, Len(s)) = t

(***************************************************************************)
(* DataLoader                                                              *)
(***************************************************************************)
supported_formats == {<<".nii">>, <<".nii", ".gz">>, <<".dcm">>, <<".mgz">>}

\* any(str(path).endswith(fmt) for fmt in self.supported_formats)
FormatSupported(p) == \E fmt \in supported_formats : EndsWith(p, fmt)

\* line 88: load_time = min(0.1 + file_size_mb / 100, 2.0), in ticks
LoadTime(mb) == Min(1 + mb \div 10, 20)

\* (mutant: the loader reports load_time without sleeping for it)
LoadSleepSkipped(mb) == 0
\* line 96: time.sleep(load_time), the duration asked of the sleep
LoadSleep(mb) == LoadTime(mb)

\* _simulate_image_data: the shape follows the file size; the values are
\* np.random.randn samples: finite, three-dimensional, non-empty
SimulateImageData(mb) ==
    [ndim |-> 3,
     size |-> IF mb < 10 THEN 1638400
              ELSE IF mb < 50 THEN 11141120 ELSE 52428800,
     has_nan |-> FALSE,
     has_inf |-> FALSE]

\* the exceptions of the stages: kind and str(e)
FileNotFoundError(p) == [kind |-> "NotFound", msg |-> <<"File not found: ", p>>]
UnsupportedFormatError ==
    [kind |-> "UnsupportedFormat",
     msg |-> <<"Unsupported format. Supported: .nii, .nii.gz, .dcm, .mgz">>]
ValidationError(text) == [kind |-> "ValidationFailure", msg |-> <<text>>]
ProcessingError == [kind |-> "Unknown", msg |-> <<"processing failed">>]
WriteIOError == [kind |-> "IOFailure", msg |-> <<"Failed to write image">>]
ZeroDivisionError == [kind |-> "ZeroDivisionError", msg |-> <<"division by zero">>]

MetricError == [kind |-> "Unknown", msg |-> <<"metric recording failed">>]

NoError == [kind |-> "none", msg |-> <<>>]

\* _validate_data: the error it raises, NoError when the data passes.
\* simulated is the outcome of random.random() < 0.01
ValidateData(data, simulated) ==
    IF data.has_nan THEN ValidationError("Data contains NaN values")
    ELSE IF data.has_inf THEN ValidationError("Data contains Inf values")
    ELSE IF data.ndim # 3 THEN ValidationError("Expected 3D data")
    ELSE IF data.size = 0 THEN ValidationError("Data is empty")
    ELSE IF simulated
         THEN ValidationError("Simulated validation failure: corrupted data detected")
    ELSE NoError

(***************************************************************************)
(* ImageProcessor                                                          *)
(***************************************************************************)
\* the sleep of each step, in ticks, for an image of the given voxel count
SkullStripTime(voxels) == Min(5 + voxels \div 1000000, 30)
BiasCorrectionTime(voxels) == Min(3 + voxels \div 1500000, 20)
NormalizeTime == 1

StepTime(step, voxels) ==
    IF step = "skull_strip" THEN SkullStripTime(voxels)
    ELSE IF step = "bias_correction" THEN BiasCorrectionTime(voxels)
    ELSE NormalizeTime

\* (mutant: the toggles are ignored and every step runs)
StepsCompletedAlways(c) == <<"skull_strip", "bias_correction", "normalization">>
\* the steps process() runs, in the order of its three if-blocks
StepsCompleted(c) ==
    (IF c.enable_skull_strip THEN <<"skull_strip">> ELSE <<>>)
    \o (IF c.enable_bias_correction THEN <<"bias_correction">> ELSE <<>>)
    \o (IF c.enable_normalization THEN <<"normalization">> ELSE <<>>)

\* the statistics the executed steps return, keyed by step name as
\* process() stores them: stats[step] = step_stats
StepStats(steps, voxels) ==
    [step \in {steps[i] : i \in DOMAIN steps} |->
        [processing_time |-> StepTime(step, voxels)]]

\* (mutant: only the first executed step is counted)
SumTimesFirstOnly(steps, st) ==
    IF steps = <<>> THEN 0 ELSE st[Head(steps)].processing_time
\* lines 82-85: sum(stats[step]["processing_time"] for step in steps_completed)
RECURSIVE SumTimes(_, _)
SumTimes(steps, st) ==
    IF steps = <<>> THEN 0
    ELSE st[Head(steps)].processing_time + SumTimes(Tail(steps), st)

\* processing_stats of process(): the steps, the statistics of each under
\* its name, and the sum of their times
ProcessingStats(c, data) ==
    LET steps == StepsCompleted(c)
        st == StepStats(steps, data.size)
    IN  st @@ [steps_completed |-> steps,
               total_processing_time |-> SumTimes(steps, st)]

(***************************************************************************)
(* DataWriter                                                              *)
(***************************************************************************)
\* data.nbytes / (1024 * 1024) for float32 voxels
DataSizeMb(data) == (data.size * 4) \div 1048576

\* write_time = min(0.2 + data_size_mb / 50, 3.0), times 1.5 when compressing
WriteTime(data, compress) ==
    IF compress THEN (Min(2 + DataSizeMb(data) \div 5, 30) * 3) \div 2
    ELSE Min(2 + DataSizeMb(data) \div 5, 30)

\* what can go wrong on the output side of one write() call
WriteFaults == {"none", "image", "metadata", "report"}

\* (mutant: the report failure is raised like the others)
WriteErrorReportRaises(fault, save_metadata) ==
    IF fault = "none" \/ (fault = "metadata" /\ ~save_metadata) THEN NoError
    ELSE WriteIOError
\* the error write() raises under a fault, NoError when it returns:
\* a report failure is caught inside _write_processing_report
WriteError(fault, save_metadata) ==
    IF fault = "image" THEN WriteIOError
    ELSE IF fault = "metadata" /\ save_metadata
         THEN [kind |-> "IOFailure", msg |-> <<"Failed to write metadata">>]
    ELSE NoError

(***************************************************************************)
(* Spans: tracer.start_as_current_span                                     *)
(* A span records what the code of the repository sets on it: attributes,  *)
(* events, status, and its end when the with-block is left.                *)
(***************************************************************************)
\* A span is identified by the process_file execution that started it and
\* its rank among the spans of that execution.  NoSpan: no parent, a root.
NoSpan == <<0, 0>>

NextSpanId(S, call) ==
    <<call, 1 + Cardinality({i \in DOMAIN S : S[i].call = call})>>

IndexOf(S, id) == CHOOSE i \in DOMAIN S : S[i].id = id

\* (mutant: a span started with no current span goes under the first span
\* ever started)
SpanUnderFirst(S, name, parent, call) ==
    [id |-> NextSpanId(S, call), name |-> name,
     parent |-> IF parent = NoSpan /\ S # <<>> THEN S[1].id ELSE parent,
     call |-> call, status |-> "unset", attrs |-> <<>>, events |-> <<>>,
     ended |-> FALSE]
\* the span a start_as_current_span(name) adds to the started spans S
Span(S, name, parent, call) ==
    [id |-> NextSpanId(S, call), name |-> name, parent |-> parent,
     call |-> call, status |-> "unset", attrs |-> <<>>, events |-> <<>>,
     ended |-> FALSE]

SetAttribute(sp, key, value) ==
    [sp EXCEPT !.attrs = (key :> value) @@ sp.attrs]
AddEvent(sp, ev) == [sp EXCEPT !.events = Append(sp.events, ev)]
SetStatus(sp, st) == [sp EXCEPT !.status = st]
\* (mutant: leaving the with-block leaves the span open)
EndSpanLeak(sp) == sp
\* leaving the with-block ends the span
EndSpan(sp) == [sp EXCEPT !.ended = TRUE]

\* the current span: the innermost open one
CurrentSpan(stack) == IF stack = <<>> THEN NoSpan ELSE stack[Len(stack)]

\* (mutant: the format is checked before the existence)
LoadErrorFormatFirst(p, validate, simulated) ==
    IF ~FormatSupported(p) THEN UnsupportedFormatError
    ELSE IF p \notin OnDisk THEN FileNotFoundError(p)
    ELSE IF validate
         THEN ValidateData(SimulateImageData(FileSizeMb(p)), simulated)
    ELSE NoError
\* the error DataLoader.load raises for a path, NoError when it returns
LoadError(p, validate, simulated) ==
    IF p \notin OnDisk THEN FileNotFoundError(p)
    ELSE IF ~FormatSupported(p) THEN UnsupportedFormatError
    ELSE IF validate
         THEN ValidateData(SimulateImageData(FileSizeMb(p)), simulated)
    ELSE NoError

\* the spans DataLoader.load opens and closes, appended to S: load_file under
\* the current span and validate_data under load_file
LoadSpans(S, parent, call, validate, err) ==
    LET load == Span(S, "load_file", parent, call)
        child == EndSpan(Span(Append(S, load), "validate_data", load.id, call))
    IN  IF err.kind \in {"NotFound", "UnsupportedFormat"}
        THEN Append(S, EndSpan(AddEvent(SetAttribute(load, "error", TRUE),
                         IF err.kind = "NotFound" THEN "File not found"
                         ELSE "Unsupported format")))
        ELSE IF err.kind = "ValidationFailure"
        THEN S \o <<EndSpan(load), child>>
        ELSE S \o <<EndSpan(SetStatus(load, "ok"))>>
               \o (IF validate THEN <<child>> ELSE <<>>)

\* (mutant: the skull_strip span is started beside process_image, not under it)
ProcessSpansFlat(S, parent, call, c) ==
    LET image == Span(S, "process_image", parent, call)
    IN  S \o <<EndSpan(image)>>
          \o (IF c.enable_skull_strip
              THEN <<EndSpan(Span(Append(S, image), "skull_strip", parent, call))>>
              ELSE <<>>)
\* the spans ImageProcessor.process opens and closes: process_image and,
\* when skull stripping runs, skull_strip under it
ProcessSpans(S, parent, call, c) ==
    LET image == Span(S, "process_image", parent, call)
    IN  S \o <<EndSpan(image)>>
          \o (IF c.enable_skull_strip
              THEN <<EndSpan(Span(Append(S, image), "skull_strip", image.id, call))>>
              ELSE <<>>)

\* the span DataWriter.write opens and closes
WriteSpans(S, parent, call) ==
    Append(S, EndSpan(Span(S, "write_output", parent, call)))

(***************************************************************************)
(* Output names                                                            *)
(***************************************************************************)
\* Path(input_path).stem: the name without its last suffix
Stem(p) == IF Len(p) > 1 THEN SubSeq(p, 1, Len(p) - 1) ELSE p

\* lines 135-139: the stem, a trailing .nii removed, then _preprocessed
DeriveOutputName(p) ==
    LET input_name == Stem(p)
        stripped == IF Len(input_name) > 1 /\ input_name[Len(input_name)] = ".nii"
                    THEN SubSeq(input_name, 1, Len(input_name) - 1)
                    ELSE input_name
    IN  Append(stripped, "_preprocessed")

\* Path.with_suffix(sfx): the name up to its last dot, then sfx; a name
\* without a dotted suffix gets sfx appended
WithSuffix(name, sfx) ==
    LET dots == {i \in 2..Len(name) : name[i] \in SuffixTokens}
    IN  IF dots = {} THEN name \o sfx
        ELSE SubSeq(name, 1, (CHOOSE k \in dots : \A i \in dots : i <= k) - 1) \o sfx

\* the suffix _write_image gives the primary output file
ImageSuffix(format, compress) ==
    IF format = "nifti" THEN (IF compress THEN <<".nii", ".gz">> ELSE <<".nii">>)
    ELSE IF format = "mgz" THEN <<".mgz">>
    ELSE <<".img">>

(***************************************************************************)
(* PreprocessingPipeline                                                   *)
(***************************************************************************)
\* the pipelines a behaviour may be constructed with
Configurations ==
    {[validate |-> v, enable_skull_strip |-> s, enable_bias_correction |-> b,
      enable_normalization |-> n, save_metadata |-> TRUE,
      compress_output |-> TRUE, output_format |-> "nifti"] :
        <<v, s, b, n>> \in {<<TRUE, TRUE, TRUE, TRUE>>, <<FALSE, FALSE, TRUE, FALSE>>}}

\* lines 70-76: self.stats as __init__ sets it
InitialStats ==
    [files_processed |-> 0, files_failed |-> 0, total_processing_time |-> 0,
     errors |-> <<>>]

NoOutcome == [kind |-> "none"]

VARIABLES
    cfg,              \* the configuration given to __init__
    metrics,          \* self.metrics: whether the instruments record or raise
    stage_call,       \* the last call made to a stage object on its own
    outputs,          \* the output names derived so far, each with its input
    stats,            \* self.stats
    pc,               \* where the (single) thread of control is
    caller,           \* who called the running process_file: "direct" or "batch"
    input_path,       \* process_file: its argument
    file_stats,       \* process_file: the FileOutcome under construction
    start_time,       \* process_file: time.time() at entry
    exc,              \* process_file: the exception caught at line 187
    loaded_data,      \* process_file: what loader.load returned
    processed_data,   \* process_file: what processor.process returned
    stages_run,       \* process_file: the stage calls made so far, in order
    pf_out,           \* what the last process_file execution gave its caller
    input_files,      \* process_batch: its argument
    idx,              \* process_batch: position of the for loop (1-based)
    results,          \* process_batch: results
    batch_start_time, \* process_batch: time.time() at entry
    batch_out,        \* what process_batch gave its caller, if that was the last call
    spans,            \* the spans started since the caller's call began, in start order
    active,           \* the stack of current spans (the context)
    now,              \* time.time(), relative to the start of the caller's call
    calls,            \* process_file executions started so far
    snapshot,         \* the last value get_statistics returned, as its caller sees it
    cli,              \* the command line invocation of this process, if any
    workers           \* the threads that call process_file side by side

vars == <<cfg, metrics, stage_call, outputs, stats, pc, caller, input_path, file_stats, start_time, exc,
          loaded_data, processed_data, stages_run, pf_out, input_files, idx,
          results, batch_start_time, batch_out, spans, active, now, calls,
          snapshot, cli, workers>>

\* what only the command line and the threaded callers change
sideVars == <<cli, workers>>
stageVars == <<stage_call, outputs>>
pipelineVars == <<cfg, metrics, stats, pc, caller, input_path, file_stats,
                  start_time, exc, loaded_data, processed_data, stages_run,
                  pf_out, input_files, idx, results, batch_start_time, batch_out,
                  spans, active, now, calls>>
pfLocals == <<input_path, file_stats, start_time, exc, loaded_data,
              processed_data, stages_run>>
batchLocals == <<input_files, idx, results, batch_start_time>>

\* a local that holds nothing
Null == [kind |-> "null"]

\* the threads of a caller that runs process_file concurrently
Workers == 1..MaxWorkers
IdleWorker == [pc |-> "idle", path |-> <<>>, err |-> NoError, tmp |-> 0,
               total_time |-> 0]

\* __init__ apart from self.metrics
Constructed ==
    /\ cfg \in Configurations
    /\ stats = InitialStats
    /\ pc = "idle"
    /\ caller = "none"
    /\ input_path = <<>>
    /\ file_stats = Null
    /\ start_time = 0
    /\ exc = NoError
    /\ loaded_data = Null
    /\ processed_data = Null
    /\ stages_run = <<>>
    /\ pf_out = NoOutcome
    /\ input_files = <<>>
    /\ idx = 0
    /\ results = <<>>
    /\ batch_start_time = 0
    /\ batch_out = NoOutcome
    /\ spans = <<>>
    /\ active = <<>>
    /\ now = 0
    /\ calls = 0
    /\ stage_call = Null
    /\ outputs = {}
    /\ snapshot = Null
    /\ cli = Null
    /\ workers = [w \in Workers |-> IdleWorker]

\* line 79: instruments whose add and record calls return
Init == metrics = "ok" /\ Constructed

\* line 79 with a meter whose instruments can raise from add and record
InitFaultyMetrics == metrics = "faulty" /\ Constructed

\* whether one add or record call raises: the possible outcomes
MetricRaises == IF metrics = "faulty" THEN BOOLEAN ELSE {FALSE}

(***************************************************************************)
(* process_file                                                            *)
(***************************************************************************)
\* lines 96-107: open the root span as the current span, read the clock,
\* create the FileOutcome; started are the spans started before, clock is
\* what time.time() returns
StartProcessFile(p, started, clock) ==
    /\ calls' = calls + 1
    /\ spans' = Append(started,
                  SetAttribute(SetAttribute(
                      Span(started, "preprocess_file", CurrentSpan(active), calls + 1),
                      "file.name", p), "file.path", p))
    /\ active' = Append(active, NextSpanId(started, calls + 1))
    /\ pf_out' = NoOutcome
    /\ start_time' = clock
    /\ file_stats' = [input_file |-> p, status |-> "processing", stages |-> <<>>]
    /\ input_path' = p
    /\ stages_run' = <<>>
    /\ exc' = NoError
    /\ loaded_data' = Null
    /\ processed_data' = Null
    /\ pc' = "load"

\* (mutant: the error of a stage is swallowed and the next stage runs)
AfterStageSwallowing(err, next) == next
\* the try block of lines 109-187: a stage that raises sends control to the
\* except clause, otherwise the next statement runs
AfterStage(err, next) == IF err = NoError THEN next ELSE "except"

\* a caller calls process_file(p)
CallProcessFile(p) ==
    /\ pc = "idle"
    /\ calls < MaxCalls
    /\ caller' = "direct"
    /\ now' = 0
    /\ batch_out' = NoOutcome
    /\ StartProcessFile(p, <<>>, 0)
    /\ UNCHANGED <<cfg, metrics, stageVars, sideVars, snapshot, stats, batchLocals>>

\* lines 110-118: stage 1, self.loader.load(input_path), then the metric
\* calls of lines 117-118, which are inside the try block
Load ==
    /\ pc = "load"
    /\ \E jitter \in 0..MaxJitter, simulated \in BOOLEAN, mraise \in MetricRaises :
         LET err == LoadError(input_path, cfg.validate, simulated)
             mb == FileSizeMb(input_path)
             raised == IF err = NoError /\ mraise THEN MetricError ELSE err
             slept == err.kind \notin {"NotFound", "UnsupportedFormat"}
         IN  /\ stages_run' = Append(stages_run, "load")
             /\ spans' = LoadSpans(spans, CurrentSpan(active), calls, cfg.validate, err)
             /\ now' = IF slept THEN now + LoadSleep(mb) + jitter ELSE now
             /\ IF err = NoError
                THEN /\ loaded_data' = [data |-> SimulateImageData(mb),
                                        file_size_mb |-> mb,
                                        load_time_seconds |-> LoadTime(mb)]
                     /\ file_stats' = [file_stats EXCEPT !.stages =
                            ("load" :> [duration |-> LoadTime(mb),
                                        file_size_mb |-> mb]) @@ @]
                ELSE UNCHANGED <<loaded_data, file_stats>>
             /\ exc' = raised
             /\ pc' = AfterStage(raised, "process")
    /\ UNCHANGED <<cfg, metrics, stageVars, sideVars, snapshot, stats, caller, input_path, start_time, processed_data,
                   pf_out, batchLocals, batch_out, active, calls>>

\* lines 120-131: stage 2, self.processor.process(loaded_data), then the
\* metric calls of lines 127-131; the stage fails when the interpreter raises
\* inside it (fault)
Process ==
    /\ pc = "process"
    /\ \E fault \in BOOLEAN, mraise \in MetricRaises :
         LET pstats == ProcessingStats(cfg, loaded_data.data)
             raised == IF fault THEN ProcessingError
                       ELSE IF mraise THEN MetricError ELSE NoError
         IN  /\ stages_run' = Append(stages_run, "process")
             /\ spans' = ProcessSpans(spans, CurrentSpan(active), calls, cfg)
             /\ IF ~fault
                THEN /\ processed_data' = [data |-> loaded_data.data,
                                           processing_stats |-> pstats]
                     /\ now' = now + pstats.total_processing_time
                     /\ file_stats' = [file_stats EXCEPT !.stages =
                            ("process" :> [duration |-> pstats.total_processing_time,
                                           steps |-> pstats.steps_completed]) @@ @]
                ELSE UNCHANGED <<processed_data, file_stats, now>>
             /\ exc' = raised
             /\ pc' = AfterStage(raised, "write")
    /\ UNCHANGED <<cfg, metrics, stageVars, sideVars, snapshot, stats, caller, input_path, start_time, loaded_data,
                   pf_out, batchLocals, batch_out, active, calls>>

\* lines 133-154: stage 3, the output name and self.writer.write(...), then
\* the metric call of line 154
Write ==
    /\ pc = "write"
    /\ \E fault \in WriteFaults, mraise \in MetricRaises :
         LET err == WriteError(fault, cfg.save_metadata)
             raised == IF err = NoError /\ mraise THEN MetricError ELSE err
             wt == WriteTime(processed_data.data, cfg.compress_output)
             output_filename == DeriveOutputName(input_path)
         IN  /\ stages_run' = Append(stages_run, "write")
             /\ spans' = WriteSpans(spans, CurrentSpan(active), calls)
             /\ now' = now + wt
             /\ IF err = NoError
                THEN /\ file_stats' = [file_stats EXCEPT !.stages =
                            ("write" :> [duration |-> wt,
                                         output_file |->
                                             WithSuffix(output_filename,
                                                 ImageSuffix(cfg.output_format,
                                                             cfg.compress_output))])
                            @@ @]
                ELSE UNCHANGED file_stats
             /\ exc' = raised
             /\ pc' = AfterStage(raised, "finish")
    /\ UNCHANGED <<cfg, metrics, stageVars, sideVars, snapshot, stats, caller, input_path, start_time, loaded_data,
                   processed_data, pf_out, batchLocals, batch_out, active, calls>>

\* the locals of process_file are gone once it has returned or raised
DropLocals ==
    /\ input_path' = <<>>
    /\ file_stats' = Null
    /\ start_time' = 0
    /\ exc' = NoError
    /\ loaded_data' = Null
    /\ processed_data' = Null
    /\ stages_run' = <<>>

\* lines 241 and 244-248: what the loop of process_batch appends
ResultOnReturn(result) == result
\* (mutant: the failure is recorded under another status)
ResultOnRaiseOtherStatus(input_file, e) ==
    [input_file |-> input_file, status |-> "error", error |-> e.msg]
ResultOnRaise(input_file, e) ==
    [input_file |-> input_file, status |-> "failed", error |-> e.msg]

\* (mutant: the loop of process_batch moves on without recording the result)
DeliverWithoutResult(outcome) ==
    /\ pf_out' = outcome
    /\ IF caller = "batch"
       THEN /\ results' = results
            /\ idx' = idx + 1
            /\ pc' = "batch_loop"
       ELSE /\ pc' = "idle"
            /\ UNCHANGED <<results, idx>>
    /\ caller' = "none"
\* process_file hands outcome to its caller: the caller's variable for a
\* direct call, one more entry of results inside process_batch
Deliver(outcome) ==
    /\ pf_out' = outcome
    /\ IF caller = "batch"
       THEN /\ results' = Append(results,
                   IF outcome.kind = "return" THEN ResultOnReturn(outcome.value)
                   ELSE ResultOnRaise(input_files[idx], outcome.exc))
            /\ idx' = idx + 1
            /\ pc' = "batch_loop"
       ELSE /\ pc' = "idle"
            /\ UNCHANGED <<results, idx>>
    /\ caller' = "none"

\* (mutant: the success is not counted)
SuccessStatsUncounted(st, total_time) ==
    [st EXCEPT !.total_processing_time = @ + total_time]
\* lines 164-185: the success path; leaving the with-block ends the root span
SuccessStats(st, total_time) ==
    [st EXCEPT !.files_processed = @ + 1,
               !.total_processing_time = @ + total_time]

\* lines 170-172: what the success path sets on the root span
RecordSuccess(sp, total_time) ==
    SetStatus(SetAttribute(SetAttribute(sp, "pipeline.duration", total_time),
                           "pipeline.status", "success"), "ok")

\* the metric calls of lines 179-180 come after the statistics update and are
\* still inside the try block: when one raises, control goes to the except
\* clause with files_processed already incremented
Finish ==
    /\ pc = "finish"
    /\ \E mraise \in MetricRaises :
         LET total_time == now - start_time
             root == IndexOf(spans, CurrentSpan(active))
             done == [input_file |-> file_stats.input_file,
                      status |-> "success",
                      stages |-> file_stats.stages,
                      total_duration |-> total_time]
         IN  /\ stats' = SuccessStats(stats, total_time)
             /\ IF ~mraise
                THEN /\ spans' = [spans EXCEPT ![root] =
                            EndSpan(RecordSuccess(@, total_time))]
                     /\ Deliver([kind |-> "return", input |-> input_path,
                                 value |-> done])
                     /\ active' = SubSeq(active, 1, Len(active) - 1)
                     /\ DropLocals
                ELSE /\ spans' = [spans EXCEPT ![root] = RecordSuccess(@, total_time)]
                     /\ file_stats' = done
                     /\ exc' = MetricError
                     /\ pc' = "except"
                     /\ UNCHANGED <<caller, input_path, start_time, loaded_data,
                                    processed_data, stages_run, pf_out, results,
                                    idx, active>>
    /\ UNCHANGED <<cfg, metrics, stageVars, sideVars, snapshot, input_files, batch_start_time, batch_out, now, calls>>

\* dict.copy() is shallow: the dictionary get_statistics returns holds the
\* numbers by value and the same list object as self.stats['errors'], so the
\* caller sees every later append to that list (line 203) in its copy
Aliased(snap, st) ==
    IF snap # Null /\ snap.shares_errors
    THEN [snap EXCEPT !.value.errors = st.errors]
    ELSE snap

\* lines 296-301 bind self.stats to a new dictionary with a new list: the list
\* a returned copy holds is no longer the pipeline's
Detached(snap) ==
    IF snap = Null THEN Null ELSE [snap EXCEPT !.shares_errors = FALSE]

\* (mutant: the failure is counted but not logged)
FailureStatsUnlogged(st, p, e) == [st EXCEPT !.files_failed = @ + 1]
\* lines 187-215: the failure path; the bare raise re-raises e, and leaving
\* the with-block ends the root span
FailureStats(st, p, e) ==
    [st EXCEPT !.files_failed = @ + 1,
               !.errors = Append(@, [file |-> p, error |-> e.msg])]

RecordError(sp, e) ==
    AddEvent(SetStatus(SetAttribute(SetAttribute(SetAttribute(sp,
        "pipeline.status", "failed"), "error", TRUE), "error.message", e.msg),
        "error"), "exception")

\* a metric call of lines 209-210 that raises replaces the exception being
\* handled: the bare raise of line 215 is not reached
Except ==
    /\ pc = "except"
    /\ \E mraise \in MetricRaises :
         LET root == IndexOf(spans, CurrentSpan(active))
         IN  /\ spans' = [spans EXCEPT ![root] = EndSpan(RecordError(@, exc))]
             /\ stats' = FailureStats(stats, input_path, exc)
             /\ snapshot' = Aliased(snapshot, FailureStats(stats, input_path, exc))
             /\ Deliver([kind |-> "raise", input |-> input_path,
                         exc |-> IF mraise THEN MetricError ELSE exc])
    /\ active' = SubSeq(active, 1, Len(active) - 1)
    /\ DropLocals
    /\ UNCHANGED <<cfg, metrics, stageVars, sideVars, input_files, batch_start_time, batch_out, now, calls>>

(***************************************************************************)
(* process_batch                                                           *)
(***************************************************************************)
BatchInputs == UNION {[1..n -> InputPaths] : n \in 0..MaxBatch}

\* lines 228-236
CallProcessBatch(files) ==
    /\ pc = "idle"
    /\ calls + Len(files) <= MaxCalls
    /\ input_files' = files
    /\ results' = <<>>
    /\ idx' = 1
    /\ now' = 0
    /\ batch_start_time' = 0
    /\ pc' = "batch_loop"
    /\ spans' = <<>>
    /\ pf_out' = NoOutcome
    /\ batch_out' = NoOutcome
    /\ UNCHANGED <<cfg, metrics, stageVars, sideVars, snapshot, stats, caller, pfLocals, active, calls>>

\* lines 238-240: the next pass of the for loop calls process_file
BatchIterate ==
    /\ pc = "batch_loop"
    /\ idx <= Len(input_files)
    /\ caller' = "batch"
    /\ StartProcessFile(input_files[idx], spans, now)
    /\ UNCHANGED <<cfg, metrics, stageVars, sideVars, snapshot, stats, batchLocals, batch_out, now>>

Count(rs, status) == Cardinality({i \in DOMAIN rs : rs[i].status = status})

\* lines 250-268: the statistics of the batch; a quotient a / b is kept as
\* the pair <<a, b>>, and dividing by zero raises ZeroDivisionError
BatchStats(files, rs, batch_duration) ==
    [total_files |-> Len(files),
     successful |-> Count(rs, "success"),
     failed |-> Count(rs, "failed"),
     success_rate |-> <<Count(rs, "success") * 100, Len(files)>>,
     total_duration |-> batch_duration,
     average_duration_per_file |-> <<batch_duration, Len(files)>>,
     results |-> rs]

BatchOutcome(files, rs, batch_duration) ==
    IF Len(files) = 0
    THEN [kind |-> "raise", input |-> files, exc |-> ZeroDivisionError]
    ELSE [kind |-> "return", input |-> files,
          value |-> BatchStats(files, rs, batch_duration)]

BatchFinish ==
    /\ pc = "batch_loop"
    /\ idx > Len(input_files)
    /\ batch_out' = BatchOutcome(input_files, results, now - batch_start_time)
    /\ pc' = "idle"
    /\ input_files' = <<>>
    /\ results' = <<>>
    /\ idx' = 0
    /\ batch_start_time' = 0
    /\ UNCHANGED <<cfg, metrics, stageVars, sideVars, snapshot, stats, caller, pfLocals, pf_out, spans, active, now, calls>>

(***************************************************************************)
(* reset_statistics                                                        *)
(***************************************************************************)
\* (mutant: the counters are zeroed in place and the error log is kept)
ResetStatsKeepingErrors(st) ==
    [st EXCEPT !.files_processed = 0, !.files_failed = 0,
               !.total_processing_time = 0]
\* lines 294-301: self.stats is replaced by a new dictionary
ResetStats(st) ==
    [files_processed |-> 0, files_failed |-> 0, total_processing_time |-> 0,
     errors |-> <<>>]

ResetStatistics ==
    /\ pc = "idle"
    /\ stats' = ResetStats(stats)
    /\ snapshot' = Detached(snapshot)
    /\ UNCHANGED <<cfg, metrics, stageVars, sideVars, pc, caller, pfLocals, pf_out, batchLocals, batch_out,
                   spans, active, now, calls>>

Next ==
    \/ \E p \in InputPaths : CallProcessFile(p)
    \/ Load
    \/ Process
    \/ Write
    \/ Finish
    \/ Except
    \/ \E files \in BatchInputs : CallProcessBatch(files)
    \/ BatchIterate
    \/ BatchFinish
    \/ ResetStatistics

Spec == Init /\ [][Next]_vars

\* the same pipeline constructed with instruments that can raise
SpecFaultyMetrics == InitFaultyMetrics /\ [][Next]_vars

(***************************************************************************)
(* get_statistics and the caller that keeps what it returned               *)
(***************************************************************************)
\* lines 290-292: return self.stats.copy()
GetStatistics ==
    /\ pc = "idle"
    /\ snapshot' = [value |-> stats, shares_errors |-> TRUE]
    /\ UNCHANGED <<pipelineVars, stageVars, sideVars>>

\* the caller changes the dictionary it was given: it zeroes a counter and
\* clears the error list; the counter is its own, the list is the object the
\* copy holds
CallerChangesCopy ==
    /\ pc = "idle"
    /\ snapshot # Null
    /\ snapshot.value.files_failed > 0 \/ snapshot.value.errors # <<>>
    /\ snapshot' = [snapshot EXCEPT !.value.files_failed = 0, !.value.errors = <<>>]
    /\ stats' = IF snapshot.shares_errors THEN [stats EXCEPT !.errors = <<>>] ELSE stats
    /\ UNCHANGED <<cfg, metrics, stageVars, sideVars, pc, caller, pfLocals, pf_out,
                   batchLocals, batch_out, spans, active, now, calls>>

NextSnapshot ==
    \/ \E p \in InputPaths : CallProcessFile(p)
    \/ Load
    \/ Process
    \/ Write
    \/ Finish
    \/ Except
    \/ ResetStatistics
    \/ GetStatistics
    \/ CallerChangesCopy

SpecSnapshot == Init /\ [][NextSnapshot]_vars

(***************************************************************************)
(* The command line: one invocation of main() per process                  *)
(***************************************************************************)
\* line 213: what input_path.glob(pattern) lists, files of the directory in
\* some order, none twice
GlobResults ==
    {files \in BatchInputs :
        /\ \A i \in DOMAIN files : files[i] \in OnDisk
        /\ \A i \in DOMAIN files : \A j \in DOMAIN files : files[i] = files[j] => i = j}

\* lines 280-282: cli() is click's Command.main in standalone mode, which
\* leaves the value the command function returned unused and ends the process
\* through ctx.exit() with code 0; only with standalone_mode=False would the
\* value come back to sys.exit
ClickMain(rv, standalone_mode) == IF standalone_mode THEN 0 ELSE rv

\* lines 44-45: "process INPUT_FILE"; click.Path(exists=True) rejects a
\* missing file as a usage error (exit code 2) before the command runs
CliProcess(p) ==
    /\ cli = Null
    /\ pc = "idle"
    /\ calls = 0
    /\ cli' = IF p \in OnDisk
              THEN [command |-> "process", state |-> "parsed", input |-> p]
              ELSE [command |-> "process", state |-> "exited", input |-> p,
                    ran |-> FALSE, rv |-> Null, exit_code |-> 2]
    /\ UNCHANGED <<pipelineVars, stageVars, snapshot, workers>>

\* lines 150-151 and 209-213: "batch INPUT_DIR" with the files the pattern
\* matches
CliBatch(files) ==
    /\ cli = Null
    /\ pc = "idle"
    /\ calls = 0
    /\ cli' = [command |-> "batch", state |-> "parsed", input |-> files]
    /\ UNCHANGED <<pipelineVars, stageVars, snapshot, workers>>

\* lines 118-131: the process command constructs the pipeline and calls
\* process_file
CliRunProcess ==
    /\ cli # Null
    /\ cli.state = "parsed"
    /\ cli.command = "process"
    /\ calls = 0
    /\ CallProcessFile(cli.input)

\* lines 225-238: the batch command constructs the pipeline and calls
\* process_batch on a list that is not empty
CliRunBatch ==
    /\ cli # Null
    /\ cli.state = "parsed"
    /\ cli.command = "batch"
    /\ cli.input # <<>>
    /\ calls = 0
    /\ CallProcessBatch(cli.input)

\* what the command function returns: lines 143 and 147 of process, lines
\* 218-220, 240-243 and 247 of batch
CommandReturn(c) ==
    IF c.command = "process"
    THEN IF pf_out.kind = "return" THEN 0 ELSE 1
    ELSE IF c.input = <<>> THEN 1
    ELSE IF batch_out.kind = "return"
         THEN IF batch_out.value.failed > 0 THEN 1 ELSE 0
    ELSE 1

\* the command function returns and main() ends the process
CliExit ==
    /\ cli # Null
    /\ cli.state = "parsed"
    /\ pc = "idle"
    /\ \/ cli.command = "process" /\ pf_out # NoOutcome
       \/ cli.command = "batch" /\ (cli.input = <<>> \/ batch_out # NoOutcome)
    /\ cli' = [command |-> cli.command, state |-> "exited", input |-> cli.input,
               ran |-> TRUE, rv |-> CommandReturn(cli),
               exit_code |-> ClickMain(CommandReturn(cli), TRUE)]
    /\ UNCHANGED <<pipelineVars, stageVars, snapshot, workers>>

NextCli ==
    \/ \E p \in InputPaths : CliProcess(p)
    \/ \E files \in GlobResults : CliBatch(files)
    \/ CliRunProcess
    \/ CliRunBatch
    \/ Load
    \/ Process
    \/ Write
    \/ Finish
    \/ Except
    \/ BatchIterate
    \/ BatchFinish
    \/ CliExit

SpecCli == Init /\ [][NextCli]_vars

(***************************************************************************)
(* process_file called from several threads on one pipeline.  The stages   *)
(* work on the thread's own locals; self.stats is the shared object, and   *)
(* the code takes no lock around it.  d[k] += x reads d[k], adds, and      *)
(* stores d[k]: two steps another thread can come between; list.append is  *)
(* one step.                                                               *)
(***************************************************************************)
threadFrame == <<cfg, metrics, pc, caller, pfLocals, pf_out, batchLocals, batch_out,
                 spans, active, now, calls, stageVars, snapshot, cli>>

\* thread w calls process_file(p)
WorkerCall(w, p) ==
    /\ workers[w].pc = "idle"
    /\ workers' = [workers EXCEPT ![w] = [@ EXCEPT !.pc = "stages", !.path = p]]
    /\ UNCHANGED <<threadFrame, stats>>

\* lines 109-163: the three stages of thread w, up to the first that raises
WorkerStages(w) ==
    /\ workers[w].pc = "stages"
    /\ \E simulated \in BOOLEAN, pfault \in BOOLEAN, wfault \in WriteFaults :
         LET p == workers[w].path
             lerr == LoadError(p, cfg.validate, simulated)
             werr == WriteError(wfault, cfg.save_metadata)
             err == IF lerr # NoError THEN lerr
                    ELSE IF pfault THEN ProcessingError
                    ELSE werr
             data == SimulateImageData(FileSizeMb(p))
             total_time == LoadSleep(FileSizeMb(p))
                           + ProcessingStats(cfg, data).total_processing_time
                           + WriteTime(data, cfg.compress_output)
         IN  workers' = [workers EXCEPT ![w] =
                 [pc |-> "count_read", path |-> p, err |-> err,
                  tmp |-> 0,
                  total_time |-> IF err = NoError THEN total_time ELSE 0]]
    /\ UNCHANGED <<threadFrame, stats>>

\* the counter line 175 (success) or line 202 (failure) increments
CounterOf(wk) == IF wk.err = NoError THEN "files_processed" ELSE "files_failed"

\* the load half of a += of lines 175, 176 and 202
WorkerRead(w) ==
    /\ workers[w].pc \in {"count_read", "time_read"}
    /\ workers' = [workers EXCEPT ![w] =
         [@ EXCEPT !.tmp = IF workers[w].pc = "count_read"
                           THEN stats[CounterOf(workers[w])]
                           ELSE stats.total_processing_time,
                   !.pc = IF workers[w].pc = "count_read"
                          THEN "count_write" ELSE "time_write"]]
    /\ UNCHANGED <<threadFrame, stats>>

\* the store half of a += of lines 175, 176 and 202
WorkerWrite(w) ==
    /\ workers[w].pc \in {"count_write", "time_write"}
    /\ LET wk == workers[w]
       IN  /\ stats' = IF wk.pc = "count_write"
                       THEN [stats EXCEPT ![CounterOf(wk)] = wk.tmp + 1]
                       ELSE [stats EXCEPT !.total_processing_time =
                                              wk.tmp + wk.total_time]
           /\ workers' = [workers EXCEPT ![w] =
                 [@ EXCEPT !.pc = IF wk.pc = "time_write" THEN "done"
                                  ELSE IF wk.err = NoError THEN "time_read"
                                  ELSE "log"]]
    /\ UNCHANGED threadFrame

\* lines 203-206: self.stats['errors'].append(...), then the call raises
WorkerLog(w) ==
    /\ workers[w].pc = "log"
    /\ stats' = [stats EXCEPT !.errors =
                    Append(@, [file |-> workers[w].path, error |-> workers[w].err.msg])]
    /\ workers' = [workers EXCEPT ![w] = [@ EXCEPT !.pc = "done"]]
    /\ UNCHANGED threadFrame

NextConcurrent ==
    \/ \E w \in Workers, p \in InputPaths : WorkerCall(w, p)
    \/ \E w \in Workers : WorkerStages(w)
    \/ \E w \in Workers : WorkerRead(w)
    \/ \E w \in Workers : WorkerWrite(w)
    \/ \E w \in Workers : WorkerLog(w)

SpecConcurrent == Init /\ [][NextConcurrent]_vars

(***************************************************************************)
(* The stage objects called on their own, as the unit tests call them      *)
(***************************************************************************)
\* what a call gave its caller
Returned(value) == [kind |-> "return", value |-> value]
Raised(e) == [kind |-> "raise", exc |-> e]

\* the Python class of an exception of the stages
ExceptionClass(e) ==
    IF e.kind = "NotFound" THEN "FileNotFoundError"
    ELSE IF e.kind \in {"UnsupportedFormat", "ValidationFailure"} THEN "ValueError"
    ELSE IF e.kind = "IOFailure" THEN "OSError"
    ELSE "Exception"

\* DataLoader(validate).load(p)
LoaderLoad(p, validate, simulated) ==
    /\ LET err == LoadError(p, validate, simulated)
           mb == FileSizeMb(p)
       IN  stage_call' =
             [op |-> "load", path |-> p, validate |-> validate,
              out |-> IF err = NoError
                      THEN Returned([data |-> SimulateImageData(mb),
                                     file_size_mb |-> mb,
                                     load_time_seconds |-> LoadTime(mb)])
                      ELSE Raised(err)]
    /\ UNCHANGED <<pipelineVars, sideVars, snapshot, outputs>>

\* the eight settings of the three step toggles
Toggles ==
    {[enable_skull_strip |-> s, enable_bias_correction |-> b,
      enable_normalization |-> n] : s \in BOOLEAN, b \in BOOLEAN, n \in BOOLEAN}

\* the images of the three size classes of _simulate_image_data
StageImages == {SimulateImageData(mb) : mb \in {1, 12, 60}}

\* ImageProcessor(toggles).process(image_data)
ProcessorProcess(c, data) ==
    /\ stage_call' =
         [op |-> "process", toggles |-> c, data |-> data,
          out |-> Returned([data |-> data,
                            processing_stats |-> ProcessingStats(c, data)])]
    /\ UNCHANGED <<pipelineVars, sideVars, snapshot, outputs>>

\* DataWriter(output_format).write(image_data, "out", save_metadata, compress)
\* under a fault of the output side
WriterWrite(format, data, save_metadata, compress, fault) ==
    /\ LET err == WriteError(fault, save_metadata)
       IN  stage_call' =
             [op |-> "write", fault |-> fault, save_metadata |-> save_metadata,
              out |-> IF err = NoError
                      THEN Returned([output_file |->
                                        WithSuffix(<<"out">>,
                                                   ImageSuffix(format, compress)),
                                     write_time_seconds |-> WriteTime(data, compress)])
                      ELSE Raised(err)]
    /\ UNCHANGED <<pipelineVars, sideVars, snapshot, outputs>>

NextStages ==
    \/ \E p \in StagePaths, validate \in BOOLEAN, simulated \in BOOLEAN :
          LoaderLoad(p, validate, simulated)
    \/ \E c \in Toggles, data \in StageImages : ProcessorProcess(c, data)
    \/ \E format \in {"nifti", "mgz", "analyze"}, data \in StageImages,
          save_metadata \in BOOLEAN, compress \in BOOLEAN, fault \in WriteFaults :
          WriterWrite(format, data, save_metadata, compress, fault)

SpecStages == Init /\ [][NextStages]_vars

(***************************************************************************)
(* The output names process_file derives for the files the loader accepts  *)
(***************************************************************************)
\* the files write() creates for an output name (writer.py lines 85, 94 and
\* 114-120): the primary output, the metadata and the report
OutputFiles(name, format, compress) ==
    [image |-> WithSuffix(name, ImageSuffix(format, compress)),
     metadata |-> WithSuffix(name, <<".json">>),
     report |-> WithSuffix(name, <<".report", ".txt">>)]

\* lines 135-148 of a process_file(p) without output_filename: the name it
\* derives and the files its write stage creates under that name
NameOutput(p) ==
    /\ p \in OnDisk
    /\ FormatSupported(p)
    /\ Cardinality(outputs) < MaxNamed
    /\ outputs' = outputs \cup
         {[input |-> p, output_filename |-> DeriveOutputName(p),
           files |-> OutputFiles(DeriveOutputName(p), cfg.output_format,
                                 cfg.compress_output)]}
    /\ UNCHANGED <<pipelineVars, sideVars, snapshot, stage_call>>

NextNaming == \E p \in StagePaths : NameOutput(p)

SpecNaming == Init /\ [][NextNaming]_vars

(***************************************************************************)
(* Properties                                                              *)
(***************************************************************************)
\* control is inside process_file
InProcessFile == pc \in {"load", "process", "write", "finish", "except"}

\* the step in which process_file returns to its caller / raises to it
ProcessFileReturns == InProcessFile /\ pf_out'.kind = "return"
ProcessFileRaises == InProcessFile /\ pf_out'.kind = "raise"

\* the root span of the running process_file, as the started spans S show it
RootSpan(S) == S[IndexOf(S, CurrentSpan(active))]

\* the kind of error a result's error text tells of
IsNotFoundText(msg) == Len(msg) > 0 /\ msg[1] = "File not found: "
EnvironmentTexts ==
    {<<"processing failed">>, <<"Failed to write image">>,
     <<"Failed to write metadata">>}

\* C1: whenever process_batch returns, results has one entry per input path,
\* entry i is about the i-th input path, and successful + failed is the
\* number of input paths.
BatchResultsMatchInputs ==
    batch_out.kind = "return" =>
        LET v == batch_out.value
            files == batch_out.input
        IN  /\ Len(v.results) = Len(files)
            /\ \A i \in DOMAIN files : v.results[i].input_file = files[i]
            /\ v.successful + v.failed = Len(files)
            /\ v.total_files = Len(files)

\* a batch of three with failures and successes has returned
BatchOfThreeMixed ==
    /\ batch_out.kind = "return"
    /\ Len(batch_out.input) = 3
    /\ batch_out.value.failed >= 1
    /\ batch_out.value.successful >= 1

\* C2: every process_batch call ends by returning a BatchOutcome whose
\* success_rate is successful / len(paths) * 100, the rate of an empty list
\* being 0 (as stated: the code divides by zero on the empty list).
BatchReturnsSuccessRate ==
    batch_out.kind # "none" =>
        /\ batch_out.kind = "return"
        /\ LET v == batch_out.value
               n == Len(batch_out.input)
           IN  IF n = 0 THEN v.success_rate[1] = 0
               ELSE v.success_rate = <<v.successful * 100, n>>

\* C3: process_batch never fails as a whole: no call of it raises, and every
\* artifact of the list gets a result, a failing one a result with status
\* failed and the error text (as stated: the empty list makes it raise).
BatchNeverFails ==
    /\ batch_out.kind # "raise"
    /\ batch_out.kind = "return" =>
         /\ DOMAIN batch_out.value.results = DOMAIN batch_out.input
         /\ \A i \in DOMAIN batch_out.value.results :
              LET r == batch_out.value.results[i]
              IN  r.status = "failed" => "error" \in DOMAIN r /\ Len(r.error) > 0

\* C4: a batch of three, one path missing from disk and the two others valid
\* files, nothing failing on the output side: total 3, successful 2, failed 1,
\* the missing one failed with NotFound, the two others success (as stated:
\* the loader's simulated validation failure breaks it).
PartialFailureIsolation ==
    LET files == batch_out.input
        rs == batch_out.value.results
        valid(p) == p \in OnDisk /\ FormatSupported(p)
    IN  (/\ batch_out.kind = "return"
         /\ Len(files) = 3
         /\ \E m \in 1..3 :
              /\ files[m] \notin OnDisk
              /\ \A i \in (1..3) \ {m} : valid(files[i])
         /\ \A i \in DOMAIN rs :
              rs[i].status = "failed" => rs[i].error \notin EnvironmentTexts)
        => /\ batch_out.value.total_files = 3
           /\ batch_out.value.successful = 2
           /\ batch_out.value.failed = 1
           /\ \A i \in 1..3 :
                IF files[i] \notin OnDisk
                THEN rs[i].status = "failed" /\ IsNotFoundText(rs[i].error)
                ELSE rs[i].status = "success"

\* C5: every failed entry of the results process_batch returns carries the
\* input identifier, the status, the stage mapping, the total elapsed time
\* and the error (as stated: the code drops stages and total_duration).
FailedOutcomeIsComplete ==
    batch_out.kind = "return" =>
        \A i \in DOMAIN batch_out.value.results :
            LET r == batch_out.value.results[i]
            IN  r.status = "failed" =>
                    {"input_file", "status", "stages", "total_duration", "error"}
                        \subseteq DOMAIN r

\* the stage that raised: the last one called
FailedStage == stages_run[Len(stages_run)]
ErrorKindsOf(stage) ==
    IF stage = "load" THEN {"NotFound", "UnsupportedFormat", "ValidationFailure"}
    ELSE IF stage = "process" THEN {"Unknown"}
    ELSE {"IOFailure"}

\* C6: inside one process_file call the stages are called in the order load,
\* process, write, each at most once; process is called only after load
\* succeeded and write only after process succeeded; once a stage has failed
\* no other stage is called, and process_file raises that stage's error.
StageOrderState ==
    /\ stages_run \in {<<>>, <<"load">>, <<"load", "process">>,
                       <<"load", "process", "write">>}
    /\ pc = "process" => stages_run = <<"load">>
                         /\ DOMAIN file_stats.stages = {"load"}
    /\ pc = "write" => stages_run = <<"load", "process">>
                       /\ DOMAIN file_stats.stages = {"load", "process"}
    /\ pc = "finish" => stages_run = <<"load", "process", "write">>
                        /\ DOMAIN file_stats.stages = {"load", "process", "write"}
    /\ pc = "except" =>
         /\ stages_run # <<>>
         /\ DOMAIN file_stats.stages =
                {stages_run[i] : i \in 1..(Len(stages_run) - 1)}
         /\ exc.kind \in ErrorKindsOf(FailedStage)

StageOrderStep ==
    /\ pc = "except" => /\ pf_out'.kind = "raise"
                        /\ pf_out'.exc = exc
                        /\ stages_run' = <<>>
    /\ ProcessFileRaises => pc = "except"

StagesRunInOrder == [](StageOrderState) /\ [][StageOrderStep]_vars

\* process_file is about to raise the error of its process stage
ProcessStageFailed ==
    pc = "except" /\ stages_run = <<"load", "process">> /\ exc.kind = "Unknown"

\* C7: the step in which process_file raises has added exactly 1 to
\* files_failed, appended one {file, error} entry for this artifact to the
\* error log and left the root span ended with error status, error = true,
\* error.message set and an exception event.
RaiseIsRecorded ==
    [][ProcessFileRaises =>
         /\ stats'.files_failed = stats.files_failed + 1
         /\ stats'.files_processed = stats.files_processed
         /\ stats'.errors = Append(stats.errors,
                [file |-> input_path, error |-> pf_out'.exc.msg])
         /\ LET root == RootSpan(spans')
            IN  /\ root.name = "preprocess_file"
                /\ root.status = "error"
                /\ root.attrs["error"] = TRUE
                /\ root.attrs["error.message"] = pf_out'.exc.msg
                /\ \E k \in DOMAIN root.events : root.events[k] = "exception"
                /\ root.ended]_vars

\* a direct process_file call has raised after an earlier failure
SecondFailureRaised ==
    /\ pc = "idle"
    /\ pf_out.kind = "raise"
    /\ stats.files_failed = 2
    /\ Len(stats.errors) = 2

\* C8: the step in which process_file returns hands over a FileOutcome with
\* status success and entries for load, process and write, has added exactly
\* 1 to files_processed and nothing to files_failed, and has ended the root
\* span with status ok; no step other than a return or a reset changes
\* files_processed, so n returns on a fresh pipeline leave it at n.
ReturnIsSuccess ==
    [][/\ ProcessFileReturns =>
            /\ pf_out'.value.status = "success"
            /\ DOMAIN pf_out'.value.stages = {"load", "process", "write"}
            /\ stats'.files_processed = stats.files_processed + 1
            /\ stats'.files_failed = stats.files_failed
            /\ stats'.errors = stats.errors
            /\ LET root == RootSpan(spans')
               IN  /\ root.name = "preprocess_file"
                   /\ root.status = "ok"
                   /\ root.ended
       /\ ~ProcessFileReturns /\ ~ResetStatistics =>
            stats'.files_processed = stats.files_processed]_vars

\* three process_file calls have returned on a pipeline never reset
ThreeSuccesses ==
    /\ pf_out.kind = "return"
    /\ calls = 3
    /\ stats.files_processed = 3
    /\ stats.files_failed = 0

\* the sum of the stage durations a FileOutcome reports
StageDurations(r) ==
    r.stages["load"].duration + r.stages["process"].duration
        + r.stages["write"].duration

\* C9: the total_duration of every FileOutcome process_file returns is at
\* least the sum of its load, process and write durations.
TotalCoversStages ==
    /\ pf_out.kind = "return" =>
         pf_out.value.total_duration >= StageDurations(pf_out.value)
    /\ \A i \in DOMAIN results :
         results[i].status = "success" =>
             results[i].total_duration >= StageDurations(results[i])

\* a call has returned with orchestration overhead
ReturnedWithOverhead ==
    /\ pf_out.kind = "return"
    /\ pf_out.value.total_duration > StageDurations(pf_out.value)

\* C10: reset_statistics leaves RunStatistics equal to the state __init__
\* gave it, whatever it was before, and resetting again changes nothing.
ResetRestoresInitial ==
    [][ResetStatistics =>
         /\ stats' = InitialStats
         /\ ResetStats(stats') = stats']_vars

\* the statistics are back at zero although the last call failed
ResetAfterFailure ==
    /\ pc = "idle"
    /\ pf_out.kind = "raise"
    /\ stats = InitialStats

\* the spans of one process_file execution, and those of them with a name
SpansOf(call) == {i \in DOMAIN spans : spans[i].call = call}
Named(name, call) == {i \in SpansOf(call) : spans[i].name = name}
StageSpanNames == {"load_file", "process_image", "write_output"}

\* C12: every span process_file opens, the root, the stage spans and the
\* sub-step spans, is closed on every exit path and never touched after it
\* was closed: while process_file runs only its root span is open and current,
\* and once it has returned or raised no span is open and the current span is
\* the one of before the call.
SpansClosedState ==
    /\ InProcessFile =>
         /\ active = <<<<calls, 1>>>>
         /\ \A i \in DOMAIN spans : ~spans[i].ended <=> spans[i].id = <<calls, 1>>
    /\ ~InProcessFile =>
         /\ active = <<>>
         /\ \A i \in DOMAIN spans : spans[i].ended

SpansClosedStep ==
    \A i \in DOMAIN spans :
        (spans[i].ended /\ i \in DOMAIN spans' /\ spans'[i].id = spans[i].id)
            => spans'[i] = spans[i]

SpansClosedOnEveryExit == [](SpansClosedState) /\ [][SpansClosedStep]_vars

\* process_file has raised out of a failed validation: root, load_file and
\* validate_data were opened, and all three are closed
RaisedWithThreeSpansClosed ==
    /\ pc = "idle"
    /\ pf_out.kind = "raise"
    /\ pf_out.exc.kind = "ValidationFailure"
    /\ Len(spans) = 3
    /\ \A i \in DOMAIN spans : spans[i].ended

\* C13: the spans of one process_file execution form a tree: exactly one root
\* span, every stage span a child of that root, every sub-step span a child
\* of its stage span; a returned execution has a span of each stage, and one
\* whose load failed has a root span with error status and no write span.
SpanTreeShape ==
    /\ \A c \in {spans[i].call : i \in DOMAIN spans} :
         /\ {i \in SpansOf(c) : spans[i].parent = NoSpan} = Named("preprocess_file", c)
         /\ Cardinality(Named("preprocess_file", c)) = 1
         /\ \A i \in SpansOf(c) :
              /\ spans[i].name \in StageSpanNames =>
                   \E r \in Named("preprocess_file", c) : spans[i].parent = spans[r].id
              /\ spans[i].name = "validate_data" =>
                   \E l \in Named("load_file", c) : spans[i].parent = spans[l].id
              /\ spans[i].name = "skull_strip" =>
                   \E m \in Named("process_image", c) : spans[i].parent = spans[m].id
    /\ pf_out.kind = "return" =>
         \A name \in StageSpanNames : Named(name, calls) # {}
    /\ (pf_out.kind = "raise" /\ pf_out.exc.kind \in ErrorKindsOf("load")) =>
         /\ \A r \in Named("preprocess_file", calls) : spans[r].status = "error"
         /\ Named("write_output", calls) = {}
         /\ Named("process_image", calls) = {}

\* inside one batch an execution with a skull_strip sub-step span has
\* returned and the next one has raised NotFound out of its load stage
TreeThenLoadFailure ==
    /\ pf_out.kind = "raise"
    /\ pf_out.exc.kind = "NotFound"
    /\ calls >= 2
    /\ Named("skull_strip", calls - 1) # {}
    /\ Named("write_output", calls - 1) # {}

\* C11: a metric call that fails does not abort process_file: once all three
\* stages have succeeded control never reaches the except clause, so the call
\* returns its success outcome and files_failed is left alone (as stated: the
\* metric calls are inside the try block without a guard of their own).
MetricFailureNeverAborts ==
    pc = "except" => DOMAIN file_stats.stages # {"load", "process", "write"}

\* the last stage call was ImageProcessor.process, and what it returned
ProcessCalled == stage_call # Null /\ stage_call.op = "process"
ProcessStatsOut == stage_call.out.value.processing_stats

StepOrder == <<"skull_strip", "bias_correction", "normalization">>
StepEnabled(c, step) ==
    IF step = "skull_strip" THEN c.enable_skull_strip
    ELSE IF step = "bias_correction" THEN c.enable_bias_correction
    ELSE c.enable_normalization
Rank(step) == CHOOSE k \in DOMAIN StepOrder : StepOrder[k] = step

ReportedTime(st, step) ==
    IF step \in DOMAIN st THEN st[step].processing_time ELSE 0

PyEquals(a, b) == ToString(a) = ToString(b)

NumberEnabled(c) ==
    Cardinality({k \in DOMAIN StepOrder : StepEnabled(c, StepOrder[k])})

\* C16: the value of steps_completed that process() returns equals the number
\* of enabled steps, 3, 2 or 0 (as stated: the code returns the list of the
\* step names, whose length is that number).
StepsCompletedIsCount ==
    ProcessCalled =>
        PyEquals(ProcessStatsOut.steps_completed, NumberEnabled(stage_call.toggles))

\* the recognized extension of a file name: .nii.gz, or else a final .nii,
\* .dcm or .mgz; no tokens when the name has none of them
RecognizedExtension(p) ==
    IF Len(p) >= 3 /\ SubSeq(p, Len(p) - 1, Len(p)) = <<".nii", ".gz">>
    THEN <<".nii", ".gz">>
    ELSE IF Len(p) >= 2 /\ p[Len(p)] \in {".nii", ".dcm", ".mgz"}
    THEN <<p[Len(p)]>>
    ELSE <<>>

\* C17: without an override the output name is the input's base name with
\* its recognized extension stripped, followed by _preprocessed, whichever
\* execution derived it (as stated: the code strips a .nii left in front of
\* the last suffix whatever that suffix was).
OutputNameStripsExtension ==
    \A o \in outputs :
        o.output_filename =
            Append(SubSeq(o.input, 1, Len(o.input) - Len(RecognizedExtension(o.input))),
                   "_preprocessed")

\* C18: two accepted inputs with distinct base names never derive the same
\* output name (as stated: a.nii and a.nii.gz both derive a_preprocessed).
OutputNamesCollisionFree ==
    \A o1 \in outputs : \A o2 \in outputs :
        o1.input # o2.input => o1.output_filename # o2.output_filename

\* the last stage call was DataWriter.write
WriteCalled == stage_call # Null /\ stage_call.op = "write"

\* C19: a failed report write is the one failure write() discards: write()
\* returns its result then, and raises an I/O failure when the primary output
\* or the metadata file cannot be written; without a fault it returns.
OnlyReportFailureDiscarded ==
    WriteCalled =>
        LET out == stage_call.out
            fails == out.kind = "raise" /\ out.exc.kind = "IOFailure"
                     /\ ExceptionClass(out.exc) = "OSError"
        IN  /\ stage_call.fault = "report" => out.kind = "return"
            /\ stage_call.fault = "image" => fails
            /\ (stage_call.fault = "metadata" /\ stage_call.save_metadata) => fails
            /\ stage_call.fault = "none" => out.kind = "return"
            /\ out.kind = "return" =>
                 {"output_file", "write_time_seconds"} \subseteq DOMAIN out.value

\* write() returned although the report could not be written
ReportFailedWriteReturned ==
    /\ WriteCalled
    /\ stage_call.fault = "report"
    /\ stage_call.save_metadata
    /\ stage_call.out.kind = "return"

\* the last stage call was DataLoader.load
LoadCalled == stage_call # Null /\ stage_call.op = "load"

\* C20: load() raises NotFound for every path that does not exist, whatever
\* its extension; UnsupportedFormat for every existing path that does not end
\* with .nii, .nii.gz, .dcm or .mgz; neither of them for an existing path
\* with one of these extensions; and the two are raised as different classes.
LoadRejectsMissingThenUnsupported ==
    LoadCalled =>
        LET p == stage_call.path
            out == stage_call.out
            accepted == RecognizedExtension(p) # <<>>
            kind == IF out.kind = "raise" THEN out.exc.kind ELSE "none"
        IN  /\ p \notin OnDisk <=> kind = "NotFound"
            /\ (p \in OnDisk /\ ~accepted) <=> kind = "UnsupportedFormat"
            /\ kind = "NotFound" => ExceptionClass(out.exc) = "FileNotFoundError"
            /\ kind = "UnsupportedFormat" => ExceptionClass(out.exc) = "ValueError"

\* load() raised NotFound for a missing path with an unsupported extension
MissingUnsupportedIsNotFound ==
    /\ LoadCalled
    /\ stage_call.path = <<"m", ".txt">>
    /\ stage_call.out.kind = "raise"
    /\ stage_call.out.exc.kind = "NotFound"

\* C21: load() raises a validation failure only when validation is enabled
\* and the payload has non-finite values, is not 3-D or is empty (as stated:
\* _validate_data also raises its simulated failure on a sound payload).
ValidationFailsOnlyOnBadPayload ==
    (/\ LoadCalled
     /\ stage_call.out.kind = "raise"
     /\ stage_call.out.exc.kind = "ValidationFailure")
    => /\ stage_call.validate
       /\ LET data == SimulateImageData(FileSizeMb(stage_call.path))
          IN  data.has_nan \/ data.has_inf \/ data.ndim # 3 \/ data.size = 0

\* the root spans that are still open
OpenRoots ==
    {i \in DOMAIN spans : spans[i].name = "preprocess_file" /\ ~spans[i].ended}

\* C24: process_batch runs one artifact at a time: at most one root span is
\* open; while artifact idx is in flight every span of the earlier artifacts
\* is closed and each of them has its result recorded; between two artifacts
\* no span is open, no local of process_file is alive, and files_processed
\* and files_failed have grown by the results recorded so far.
BatchIsSequential ==
    /\ Cardinality(OpenRoots) <= 1
    /\ (caller = "batch" /\ InProcessFile) =>
         /\ input_path = input_files[idx]
         /\ \A i \in DOMAIN spans : spans[i].call < calls => spans[i].ended
         /\ Len(results) = idx - 1
         /\ \A k \in DOMAIN results : results[k].input_file = input_files[k]
    /\ pc = "batch_loop" =>
         /\ \A i \in DOMAIN spans : spans[i].ended
         /\ input_path = <<>>
         /\ file_stats = Null
         /\ Len(results) = idx - 1
         /\ Cardinality({i \in DOMAIN spans : spans[i].name = "preprocess_file"})
                = idx - 1
         /\ Count(results, "failed") =
                Cardinality({i \in DOMAIN spans : spans[i].name = "preprocess_file"
                                                   /\ spans[i].status = "error"})

\* the load stage of the second artifact of a batch is about to start and
\* the first artifact has failed
SecondArtifactStartsAfterFailure ==
    /\ caller = "batch"
    /\ pc = "load"
    /\ idx = 2
    /\ results[1].status = "failed"

\* C25: the status of a FileOutcome leaves processing once: when control
\* reaches the except clause, which sets failed and counts the artifact in
\* files_failed, the success path has not already set success and counted it
\* in files_processed (as stated: a statement of the success path that raises
\* after the statistics update does just that).
OutcomeFinalizedOnce ==
    pc = "except" => file_stats.status = "processing"

\* C26: each process_file execution has its own root span, a span with no
\* parent; the parent of every other span is a span of the same execution,
\* so no span descends from a span of another execution; span ids are unique.
TracesAreIndependent ==
    /\ \A i \in DOMAIN spans :
         /\ spans[i].name = "preprocess_file" <=> spans[i].parent = NoSpan
         /\ spans[i].parent # NoSpan =>
              \E j \in DOMAIN spans : /\ spans[j].id = spans[i].parent
                                      /\ spans[j].call = spans[i].call
                                      /\ j < i
         /\ \A j \in DOMAIN spans : spans[j].id = spans[i].id => j = i
    /\ \A c \in {spans[i].call : i \in DOMAIN spans} :
         Cardinality(Named("preprocess_file", c)) = 1

\* two artifacts of one batch have been processed completely, one trace each
TwoTracesInOneBatch ==
    /\ pc = "batch_loop"
    /\ idx = 3
    /\ Named("write_output", calls - 1) # {}
    /\ Named("write_output", calls) # {}

\* C27: files_processed + files_failed grows by exactly 1 with every
\* process_file execution that completes, is 0 after a reset and changes at
\* no other step, and the error log is as long as files_failed (as stated:
\* an execution whose success path raises after the statistics update is
\* counted twice).
CountersMatchExecutions ==
    [][/\ stats'.files_processed + stats'.files_failed =
            IF ResetStatistics THEN 0
            ELSE IF ProcessFileReturns \/ ProcessFileRaises
                 THEN stats.files_processed + stats.files_failed + 1
                 ELSE stats.files_processed + stats.files_failed
       /\ Len(stats'.errors) = stats'.files_failed]_vars

\* the error-log entries the failed results of a batch stand for, in order
RECURSIVE FailedEntries(_)
FailedEntries(rs) ==
    IF rs = <<>> THEN <<>>
    ELSE (IF Head(rs).status = "failed"
          THEN <<[file |-> Head(rs).input_file, error |-> Head(rs).error]>>
          ELSE <<>>) \o FailedEntries(Tail(rs))

\* C30: when process_batch returns on a pipeline that has run nothing else,
\* files_processed is successful, files_failed is failed and the error log
\* is the list of the failed results, in input order and with their error
\* texts (as stated: an execution counted twice, or whose except clause
\* raises another error, breaks the agreement).
StatsAgreeWithBatchOutcome ==
    [][(/\ pc = "batch_loop"
        /\ batch_out'.kind = "return"
        /\ calls = Len(input_files))
       => /\ stats'.files_processed = batch_out'.value.successful
          /\ stats'.files_failed = batch_out'.value.failed
          /\ stats'.errors = FailedEntries(batch_out'.value.results)]_vars

\* the files of one derivation, as a set
FilesOf(o) == {o.files.image, o.files.metadata, o.files.report}

\* C29: the primary output, the metadata and the report written for an
\* output name are named by that name followed by the format suffix, .json
\* and .report.txt, so two distinct output names never share a file (as
\* stated: with_suffix cuts the name at its last dot first).
OutputFilesCarryOutputName ==
    /\ \A o \in outputs :
         /\ o.files.image =
                o.output_filename \o ImageSuffix(cfg.output_format, cfg.compress_output)
         /\ o.files.metadata = o.output_filename \o <<".json">>
         /\ o.files.report = o.output_filename \o <<".report", ".txt">>
    /\ \A o1 \in outputs : \A o2 \in outputs :
         o1.output_filename # o2.output_filename => FilesOf(o1) \cap FilesOf(o2) = {}

\* C28: a value returned by get_statistics is a snapshot: no later
\* process_file or reset_statistics step changes its counters or its error
\* list, and a change the caller makes to it leaves self.stats as it was.
StatisticsCopyIsSnapshot ==
    [][/\ (snapshot # Null /\ ~GetStatistics /\ ~CallerChangesCopy)
            => snapshot' = Null \/ snapshot'.value = snapshot.value
       /\ CallerChangesCopy => stats' = stats]_vars

\* an artifact of the command that ran has failed
ArtifactFailed ==
    IF cli.command = "process" THEN pf_out.kind = "raise"
    ELSE cli.input # <<>> /\ batch_out.kind = "return" /\ batch_out.value.failed > 0

\* C22: the exit code of a command that ran is not 0 when an artifact
\* failed; the process command exits with 0 on success and 1 on failure, the
\* batch command with 0 only if no artifact failed.
ExitCodeTellsFailure ==
    (cli # Null /\ cli.state = "exited" /\ cli.ran) =>
        /\ ArtifactFailed => cli.exit_code # 0
        /\ cli.command = "process" =>
              cli.exit_code = (IF pf_out.kind = "return" THEN 0 ELSE 1)

\* C23: when every concurrent process_file call has finished, no increment
\* and no append is lost: files_processed + files_failed is the number of
\* calls and the error log has one entry per failed call.
ConcurrentIncrementsKept ==
    (\A w \in Workers : workers[w].pc = "done") =>
        /\ stats.files_processed + stats.files_failed = Cardinality(Workers)
        /\ Len(stats.errors) =
              Cardinality({w \in Workers : workers[w].err # NoError})

====
